---------------------------- MODULE Spec2Model ----------------------------
(***************************************************************************)
(* A model of parse_ctrees.h: the header resolver parse_header_ctrees, the *)
(* growth step reallocate_base_ptrs, the row parser parse_line_ctrees and  *)
(* the chunked block reader read_single_tree_ctrees.                       *)
(*                                                                         *)
(* Text is a sequence of one-character strings.  A C string is the part of *)
(* a buffer before its first NUL.  The model is the default build, in      *)
(* which PARSE_CTREES_XASSERT is active (NDEBUG undefined).               *)
(***************************************************************************)
EXTENDS Integers, Sequences, FiniteSets, TLC

VARIABLES
    op,             \* the function that ran last: "init", "parse_line", ...
    column_info,    \* struct ctrees_column_to_ptr: [ncols, column_number, field_types, dest_offset_to_element, base_ptr_idx]
    N,              \* base_ptr_info->N: number of rows read
    nallocated,     \* base_ptr_info->nallocated
    base_ptrs,      \* per group, the number of elements its block really holds
    status,         \* result of the last call
    call,           \* what the last parse_line_ctrees call saw and did
    file,           \* the bytes of the file behind fd
    pc,             \* where read_single_tree_ctrees stands
    offset,         \* its local variable offset
    done,           \* its local variable done
    read_buffer,    \* char read_buffer[]: bytes, UNINIT where never written
    nbytes_read,    \* result of the last chunk pread
    bytes_processed,\* bytes of the chunk consumed by rows so far
    start,          \* start - &read_buffer[0]
    rstatus,        \* what read_single_tree_ctrees returned
    handed,         \* the row texts handed to parse_line_ctrees, in order
    marker,         \* the first '#' the scan met: where and after how many rows
    wild,           \* times an indeterminate byte decided what the reader did
    pass,           \* the last finished pass of the chunk loop
    header,         \* the first line of the file, as fgets delivers it
    request,        \* the caller's arrays column_names, field_types, base_ptr_idx, dest_offset_to_element
    request0        \* those arrays as they were when parse_header_ctrees was called

lineVars == <<op, column_info, N, nallocated, base_ptrs, status, call>>
readVars == <<file, pc, offset, done, read_buffer, nbytes_read, bytes_processed,
              start, rstatus, handed, marker, wild, pass>>
headVars == <<header, request, request0>>
vars == <<lineVars, readVars, headVars>>

------------------------------------------------------------------------------
(* Bounds of the model *)

\* number of destination groups (base_ptr_info->num_base_ptrs)
num_base_ptrs == 2
\* bytes per destination element of every group (base_element_size[i])
ElemSize == 8
\* longest row text handed to parse_line_ctrees by the line specification
MaxRowLen == 3
\* most entries of a column mapping
MaxCols == 2
\* highest file column index a mapping entry names
MaxFileCol == 1
\* largest initial capacity the caller supplies
MaxInitCap == 1
\* rows counted before the model stops calling the parser
MaxN == 3
\* longest file of the reader specification
MaxFileLen == 7
\* bytes asked for by one chunk pread (4095 in the source)
to_read_bytes == 4
\* char linebuf[PARSE_CTREES_MAXBUFSIZE] (1024 in the source)
PARSE_CTREES_MAXBUFSIZE == 2
\* bytes of the marker-line lookahead (30 in the source)
num_chars_first_tree_line == 3
\* most times per call that an indeterminate byte ends a row, is taken for
\* a marker or lengthens the text in linebuf
MaxWild == 1

------------------------------------------------------------------------------
(* enum parse_numeric_types *)

I32 == 0
I64 == 1
U32 == 2
U64 == 3
F32 == 4
F64 == 5
num_numeric_types == 6

\* most columns that can be requested
PARSE_CTREES_MAX_NCOLS == 128

EXIT_SUCCESS == "EXIT_SUCCESS"
EXIT_FAILURE == "EXIT_FAILURE"
\* the process died on undefined behaviour (a write or read outside storage)
CRASH == "CRASH"

\* the build flag of PARSE_CTREES_XASSERT
NDEBUG == FALSE

\* PARSE_CTREES_XASSERT(EXP, ...) makes the function return when EXP is false
XAssertFails(exp) == ~NDEBUG /\ ~exp

\* the null pointer, as a token or as the rest of a string
NULL == <<"NULL">>
NUL == "\\0"

------------------------------------------------------------------------------
(* Text helpers *)

Digits == {"0", "1", "2", "3", "4", "5", "6", "7", "8", "9"}

DigitVal(c) ==
    CASE c = "0" -> 0 [] c = "1" -> 1 [] c = "2" -> 2 [] c = "3" -> 3
      [] c = "4" -> 4 [] c = "5" -> 5 [] c = "6" -> 6 [] c = "7" -> 7
      [] c = "8" -> 8 [] c = "9" -> 9

IsSpace(c) == c \in {" ", "\n", "\t"}

Drop(s, n) == IF n >= Len(s) THEN <<>> ELSE SubSeq(s, n + 1, Len(s))
Take(s, n) == IF n >= Len(s) THEN s ELSE SubSeq(s, 1, n)

\* index of the first element of s that is in set D, or Len(s)+1
RECURSIVE FirstIn(_, _, _)
FirstIn(s, D, i) ==
    IF i > Len(s) THEN i
    ELSE IF s[i] \in D THEN i ELSE FirstIn(s, D, i + 1)

\* the C string held in a buffer: the bytes before the first NUL
CStr(buf) == Take(buf, FirstIn(buf, {NUL}, 1) - 1)

\* all sequences over S of length at most n
SeqsUpTo(S, n) == UNION {[1..k -> S] : k \in 0..n}


------------------------------------------------------------------------------
(* C library functions used by the parser *)

\* strsep(&string, delims): the token before the first delimiter, and the
\* rest of the string after it (NULL when no delimiter was left)
SplitAt(string, k) ==
    [token  |-> Take(string, k - 1),
     string |-> IF k > Len(string) THEN NULL ELSE Drop(string, k)]

strsep(string, delims) ==
    IF string = NULL THEN [token |-> NULL, string |-> NULL]
    ELSE SplitAt(string, FirstIn(string, delims, 1))

\* value of the longest prefix of decimal digits of s, and its length
RECURSIVE DigitRun(_, _, _)
DigitRun(s, i, acc) ==
    IF i <= Len(s) /\ s[i] \in Digits
    THEN DigitRun(s, i + 1, [val |-> 10 * acc.val + DigitVal(s[i]), len |-> acc.len + 1])
    ELSE acc

\* the text after leading white space
RECURSIVE SkipSpace(_)
SkipSpace(s) == IF s # <<>> /\ IsSpace(s[1]) THEN SkipSpace(Tail(s)) ELSE s

NoDigits == [val |-> 0, len |-> 0]

\* strtol(token, NULL, 10) and strtoll(token, NULL, 10): optional white
\* space and sign, then digits; 0 when there is no digit.  The clamp to the
\* range of long is left out: a row of the model has far fewer than 19 digits.
SignedDigits(s) ==
    IF s # <<>> /\ s[1] = "-" THEN 0 - DigitRun(Tail(s), 1, NoDigits).val
    ELSE IF s # <<>> /\ s[1] = "+" THEN DigitRun(Tail(s), 1, NoDigits).val
    ELSE DigitRun(s, 1, NoDigits).val

strtol(token) == SignedDigits(SkipSpace(token))

\* the cast (int32_t) of a long: the value itself while it fits 32 bits, as
\* every value of the model does (TLC's integers are 32 bits wide)
ToInt32(v) == v

\* the decimal int.frac as the fraction num/den; 0 when it has no digit
Decimal(int, frac) ==
    IF int.len = 0 /\ frac.len = 0 THEN [num |-> 0, den |-> 1]
    ELSE [num |-> int.val * (10 ^ frac.len) + frac.val, den |-> 10 ^ frac.len]

\* the digits after a decimal point at the head of rest
Fraction(rest) ==
    IF rest # <<>> /\ rest[1] = "." THEN DigitRun(rest, 2, NoDigits) ELSE NoDigits

DecimalAfter(body, int) == Decimal(int, Fraction(Drop(body, int.len)))

UnsignedDecimal(body) == DecimalAfter(body, DigitRun(body, 1, NoDigits))

Negated(r) == [num |-> 0 - r.num, den |-> r.den]

SignedDecimal(s) ==
    IF s # <<>> /\ s[1] = "-" THEN Negated(UnsignedDecimal(Tail(s)))
    ELSE IF s # <<>> /\ s[1] = "+" THEN UnsignedDecimal(Tail(s))
    ELSE UnsignedDecimal(s)

\* strtof(token, NULL) and strtod(token, NULL) on decimal text without an
\* exponent: the value num/den; 0 when no conversion can be made
strtod(token) == SignedDecimal(SkipSpace(token))

\* bytes written for a destination type
Width(type) == IF type \in {I32, U32, F32} THEN 4 ELSE 8

\* base_ptr_info->base_element_size[i]
base_element_size == [g \in 1..num_base_ptrs |-> ElemSize]

------------------------------------------------------------------------------
(* reallocate_base_ptrs *)

\* The loop over the groups.  failAt names the group whose realloc returns
\* NULL (0: none does).  A group's pointer is replaced as soon as its own
\* realloc has succeeded.
RECURSIVE ReallocLoop(_, _, _, _)
ReallocLoop(bp, i, new_N, failAt) ==
    IF i > num_base_ptrs THEN [status |-> EXIT_SUCCESS, base_ptrs |-> bp]
    ELSE IF failAt = i THEN [status |-> EXIT_FAILURE, base_ptrs |-> bp]
    ELSE ReallocLoop([bp EXCEPT ![i] = new_N], i + 1, new_N, failAt)

Reallocated(r, nalloc, new_N) ==
    [status     |-> r.status,
     base_ptrs  |-> r.base_ptrs,
     nallocated |-> IF r.status = EXIT_SUCCESS THEN new_N ELSE nalloc]

reallocate_base_ptrs(bp, nalloc, new_N, failAt) ==
    Reallocated(ReallocLoop(bp, 1, new_N, failAt), nalloc, new_N)

------------------------------------------------------------------------------
(* parse_line_ctrees *)

\* the do-while around strsep: the next non-empty token of the row, or NULL
RECURSIVE NextField(_)
NonEmpty(r) == IF r.token # NULL /\ r.token = <<>> THEN NextField(r.string) ELSE r
NextField(string) == NonEmpty(strsep(string, {" "}))

\* while(icol < wanted_col): fetch tokens up to the wanted file column.
\* ok is FALSE when the assertion token != NULL made the function return.
RECURSIVE AdvanceTo(_, _, _, _)
Fetched(icol, r, wanted_col) ==
    IF XAssertFails(r.token # NULL)
    THEN [icol |-> icol, string |-> r.string, token |-> r.token, ok |-> FALSE]
    ELSE AdvanceTo(icol + 1, r.string, r.token, wanted_col)

AdvanceTo(icol, string, token, wanted_col) ==
    IF icol >= wanted_col
    THEN [icol |-> icol, string |-> string, token |-> token, ok |-> TRUE]
    ELSE Fetched(icol, NextField(string), wanted_col)

\* the cases of switch(wanted_type)
HandledTypes == {F32, F64, I32, I64}

\* the value the switch stores for a type it handles
Convert(type, token) ==
    CASE type = F32 -> strtod(token)
      [] type = F64 -> strtod(token)
      [] type = I32 -> ToInt32(strtol(token))
      [] type = I64 -> strtol(token)

\* does a write of `type` at row `row`, byte `off` of group idx stay inside
\* the block the group's pointer holds
InBlock(bp, idx, row, off, type) ==
    row * base_element_size[idx + 1] + off + Width(type)
        <= bp[idx + 1] * base_element_size[idx + 1]

Stop(acc, st, why) == [acc EXCEPT !.status = st, !.err = why]

\* the store *((T *) dest) = tmp of entry i, as a record of what was written
\* where; inblock says whether it stayed inside the group's block
Store(acc, adv, i, ci, bp) ==
    [base_ptr_idx |-> ci.base_ptr_idx[i], row |-> acc.N,
     offset |-> ci.dest_offset_to_element[i], type |-> ci.field_types[i],
     column |-> ci.column_number[i], token |-> adv.token,
     value |-> Convert(ci.field_types[i], adv.token),
     inblock |-> InBlock(bp, ci.base_ptr_idx[i], acc.N,
                         ci.dest_offset_to_element[i], ci.field_types[i])]

\* The for loop over the mapping entries, from entry i on.
\* acc = [N, icol, string, token, writes, status, err].
RECURSIVE ColumnLoop(_, _, _, _)

\* entry i from the second token assertion on: the switch and N++
Switch(acc, adv, i, ci, bp) ==
    IF ~adv.ok THEN Stop(acc, EXIT_FAILURE, "no_token")
    ELSE IF ~(adv.token # NULL /\ adv.token # <<>>)
         THEN Stop(acc, IF NDEBUG THEN CRASH ELSE EXIT_FAILURE, "no_token")
    ELSE IF ci.field_types[i] \notin HandledTypes
         THEN Stop(acc, EXIT_FAILURE, "unknown_type")
    ELSE ColumnLoop([acc EXCEPT !.icol = adv.icol, !.string = adv.string,
                                !.token = adv.token,
                                !.writes = Append(@, Store(acc, adv, i, ci, bp)),
                                !.N = @ + 1],
                    i + 1, ci, bp)

ColumnLoop(acc, i, ci, bp) ==
    IF i > ci.ncols THEN acc
    ELSE IF ~(ci.base_ptr_idx[i] < num_base_ptrs)
         THEN Stop(acc, IF NDEBUG THEN CRASH ELSE EXIT_FAILURE, "base_ptr_idx")
    ELSE IF XAssertFails(base_element_size[ci.base_ptr_idx[i] + 1] >= 4)
         THEN Stop(acc, EXIT_FAILURE, "stride")
    ELSE IF XAssertFails(ci.dest_offset_to_element[i]
                             <= base_element_size[ci.base_ptr_idx[i] + 1])
         THEN Stop(acc, EXIT_FAILURE, "offset")
    ELSE Switch(acc, AdvanceTo(acc.icol, acc.string, acc.token, ci.column_number[i]),
                i, ci, bp)

\* the growth step at the head of parse_line_ctrees
GrowthStep(st, failAt) ==
    IF st.nallocated = st.N
    THEN reallocate_base_ptrs(st.base_ptrs, st.nallocated, 2 * st.N, failAt)
    ELSE [status |-> EXIT_SUCCESS, base_ptrs |-> st.base_ptrs,
          nallocated |-> st.nallocated]

Returned(st, re, acc) ==
    [status |-> acc.status, err |-> acc.err, N |-> acc.N,
     nallocated |-> re.nallocated, base_ptrs |-> re.base_ptrs,
     writes |-> acc.writes, grew |-> st.nallocated = st.N]

AfterGrowth(linebuf, ci, st, re) ==
    IF re.status # EXIT_SUCCESS
    THEN Returned(st, re, [status |-> re.status, err |-> "realloc", N |-> st.N,
                           writes |-> <<>>])
    ELSE Returned(st, re,
            ColumnLoop([N |-> st.N, icol |-> -1, string |-> CStr(linebuf),
                        token |-> NULL, writes |-> <<>>, status |-> EXIT_SUCCESS,
                        err |-> "none"],
                       1, ci, re.base_ptrs))

\* parse_line_ctrees(linebuf, column_info, base_ptr_info) with every store
\* carried out, also one that lands outside its block.  st is the
\* base_ptr_info [N, nallocated, base_ptrs]; failAt is the group whose realloc
\* fails (0: none).
parse_line_ctrees(linebuf, ci, st, failAt) ==
    AfterGrowth(linebuf, ci, st, GrowthStep(st, failAt))

\* index of the first store outside its block, or Len(writes) + 1
RECURSIVE FirstWild(_, _)
FirstWild(writes, k) ==
    IF k > Len(writes) THEN k
    ELSE IF ~writes[k].inblock THEN k ELSE FirstWild(writes, k + 1)

\* the call dies at store k, the first outside its block
CrashedAt(r, st, k) ==
    [r EXCEPT !.status = CRASH, !.err = "write_outside_block",
              !.N = st.N + k - 1, !.writes = SubSeq(r.writes, 1, k - 1)]

\* a store outside its block is undefined: the call goes on, or it dies there
WithCrash(r, st) ==
    IF FirstWild(r.writes, 1) <= Len(r.writes)
    THEN {r, CrashedAt(r, st, FirstWild(r.writes, 1))}
    ELSE {r}

\* the realloc outcomes open to a call: a group's realloc can fail only in
\* a call that grows
FailChoices(st) == IF st.nallocated = st.N THEN 0..num_base_ptrs ELSE {0}

\* every way a call parse_line_ctrees(linebuf, ci, st) can end
ParseLineOutcomes(linebuf, ci, st) ==
    UNION { WithCrash(parse_line_ctrees(linebuf, ci, st, failAt), st) :
            failAt \in FailChoices(st) }

------------------------------------------------------------------------------
(* The line specification: a caller that owns a resolved mapping and a     *)
(* buffer group and calls parse_line_ctrees row after row.                 *)

\* characters of the rows the caller passes
LineChars == {" ", "1", "x"}

\* the non-empty space-separated tokens of a row, in order
RECURSIVE Fields(_)
FieldsFrom(r) == IF r.token = NULL THEN <<>> ELSE <<r.token>> \o Fields(r.string)
Fields(string) == FieldsFrom(NextField(string))

IsAscending(f, n) == \A i \in 1..n, j \in 1..n : i <= j => f[i] <= f[j]

\* byte offsets a caller gives a mapping entry: the head of the element,
\* the element's size, and beyond it
DestOffsets == {0, ElemSize, 2 * ElemSize}

\* Mappings of n entries as parse_header_ctrees leaves them (ascending file columns), one
\* destination array per mapped column, each entry at one of DestOffsets; the
\* type tag ranges over the whole enum, its end marker included.
LineMappings(n) ==
    { [ncols |-> n, column_number |-> cn, field_types |-> ft,
       dest_offset_to_element |-> off,
       base_ptr_idx |-> [i \in 1..n |-> (i - 1) % num_base_ptrs]] :
      cn \in {f \in [1..n -> 0..MaxFileCol] : IsAscending(f, n)},
      ft \in [1..n -> I32..num_numeric_types],
      off \in [1..n -> DestOffsets] }

NoCall ==
    [N0 |-> 0, nallocated0 |-> 0, base_ptrs0 |-> [g \in 1..num_base_ptrs |-> 0],
     fields |-> <<>>, writes |-> <<>>, err |-> "none", grew |-> FALSE]

\* an indeterminate byte: never written, or outside the array
UNINIT == "?"

NoMarker == [seen |-> FALSE, at |-> 0, rows |-> 0, first |-> FALSE]
NoPass == [ended |-> FALSE, from |-> 0, read |-> 0]

NoRequest ==
    [nfields |-> 0, column_names |-> <<>>, field_types |-> <<>>,
     base_ptr_idx |-> <<>>, dest_offset_to_element |-> <<>>]

\* the header resolver's variables in a specification that starts from a
\* resolved mapping
HeaderIdle == header = <<>> /\ request = NoRequest /\ request0 = NoRequest

\* the reader's variables while read_single_tree_ctrees is not running
ReaderIdle ==
    /\ file = <<>>
    /\ pc = "idle"
    /\ offset = 0
    /\ done = 0
    /\ read_buffer = [i \in 1..(to_read_bytes + 1) |-> UNINIT]
    /\ nbytes_read = 0
    /\ bytes_processed = 0
    /\ start = 0
    /\ rstatus = "none"
    /\ handed = <<>>
    /\ marker = NoMarker
    /\ wild = 0
    /\ pass = NoPass

InitLine ==
    /\ op = "init"
    /\ \E n \in 0..MaxCols : column_info \in LineMappings(n)
    /\ N = 0
    /\ nallocated \in 0..MaxInitCap
    /\ base_ptrs = [g \in 1..num_base_ptrs |-> nallocated]
    /\ status = "none"
    /\ call = NoCall
    /\ ReaderIdle
    /\ HeaderIdle

\* rows of the line specification
LineRows == SeqsUpTo(LineChars, MaxRowLen)

\* the record kept of a call
CallRecord(linebuf, r) ==
    [N0 |-> N, nallocated0 |-> nallocated, base_ptrs0 |-> base_ptrs,
     fields |-> Fields(CStr(linebuf)), writes |-> r.writes, err |-> r.err,
     grew |-> r.grew]

\* one call parse_line_ctrees(linebuf, &column_info, &base_ptr_info); the
\* caller stops at the first call that does not return EXIT_SUCCESS
ParseLine ==
    /\ status \in {"none", EXIT_SUCCESS}
    /\ N < MaxN
    /\ \E linebuf \in LineRows :
       \E r \in ParseLineOutcomes(linebuf, column_info,
                   [N |-> N, nallocated |-> nallocated, base_ptrs |-> base_ptrs]) :
           /\ op' = "parse_line"
           /\ N' = r.N
           /\ nallocated' = r.nallocated
           /\ base_ptrs' = r.base_ptrs
           /\ status' = r.status
           /\ call' = CallRecord(linebuf, r)
    /\ UNCHANGED <<column_info, readVars, headVars>>

NextLine == ParseLine

SpecLine == InitLine /\ [][NextLine]_vars

------------------------------------------------------------------------------
(* Claims about parse_line_ctrees and reallocate_base_ptrs (SpecLine) *)

ParsedLine == op = "parse_line"

\* the call made no write outside a block (its behaviour is defined)
DefinedCall ==
    status # CRASH /\ \A k \in 1..Len(call.writes) : call.writes[k].inblock

\* C1: a successful parse_line_ctrees call with a mapping of ncols >= 1
\* entries advances the row counter N by exactly 1, after all ncols columns
\* of the row have been written (all of them at the row index N had on entry).
C1_RowCounterAdvancesByOne ==
    (ParsedLine /\ status = EXIT_SUCCESS /\ column_info.ncols >= 1)
        => /\ N = call.N0 + 1
           /\ Len(call.writes) = column_info.ncols
           /\ \A k \in 1..Len(call.writes) : call.writes[k].row = call.N0

\* C4: a call entered with N equal to the capacity, whose growth step
\* succeeds, leaves every group with twice the capacity it had, a non-zero
\* capacity when it had none, and a capacity greater than the row counter
\* the call was entered with.
C4_GrowthDoublesAndSeeds ==
    (ParsedLine /\ call.grew /\ call.err # "realloc")
        => /\ nallocated = 2 * call.nallocated0
           /\ \A g \in 1..num_base_ptrs : base_ptrs[g] = 2 * call.base_ptrs0[g]
           /\ (call.nallocated0 = 0 => nallocated > 0)
           /\ nallocated > call.N0

\* C5: when the realloc of any one group fails, no group's storage has been
\* grown or replaced, and the row count and the recorded capacity are as
\* they were on entry.
C5_GrowthAllOrNothing ==
    (ParsedLine /\ call.err = "realloc")
        => /\ status = EXIT_FAILURE
           /\ base_ptrs = call.base_ptrs0
           /\ N = call.N0
           /\ nallocated = call.nallocated0

\* C12: every value a parse_line_ctrees call writes lies inside the current
\* row's element of its group and inside allocated storage: the row index is
\* below the shared capacity, the byte offset is in [0, stride) and byte
\* offset + width of the written type <= stride; no entry with a byte offset
\* >= stride is written.
C12_WritesInsideElement ==
    ParsedLine
        => \A k \in 1..Len(call.writes) :
              /\ call.writes[k].row < nallocated
              /\ call.writes[k].offset >= 0
              /\ call.writes[k].offset < base_element_size[call.writes[k].base_ptr_idx + 1]
              /\ call.writes[k].offset + Width(call.writes[k].type)
                     <= base_element_size[call.writes[k].base_ptr_idx + 1]

\* text that is a decimal number: optional sign, digits with an optional
\* decimal point, at least one digit, and nothing else
DigitsOnly(s) == s # <<>> /\ DigitRun(s, 1, NoDigits).len = Len(s)

\* digits, then nothing or a point followed by nothing or digits; or a point
\* followed by digits
UnsignedNumber(body, k) ==
    \/ k = Len(body) + 1 /\ DigitsOnly(body)
    \/ /\ k <= Len(body)
       /\ k > 1 => DigitsOnly(Take(body, k - 1))
       /\ k < Len(body) => DigitsOnly(Drop(body, k))
       /\ Len(body) > 1

IsNumber(token) ==
    IF token # <<>> /\ token[1] \in {"-", "+"}
    THEN UnsignedNumber(Tail(token), FirstIn(Tail(token), {"."}, 1))
    ELSE UnsignedNumber(token, FirstIn(token, {"."}, 1))

\* the row of the last call lacks a token for a mapped column, or holds
\* text that is no number there
BadRow ==
    \E i \in 1..column_info.ncols :
        \/ Len(call.fields) < column_info.column_number[i] + 1
        \/ ~IsNumber(call.fields[column_info.column_number[i] + 1])

\* C8: for a row with a missing or non-numeric token in a mapped column,
\* parse_line_ctrees returns an error, stores no value made from text that
\* is no number, and leaves the row counter as it was.
C8_BadTokenIsHardError ==
    (ParsedLine /\ call.err # "realloc" /\ DefinedCall /\ BadRow)
        => /\ status = EXIT_FAILURE
           /\ N = call.N0
           /\ \A k \in 1..Len(call.writes) : IsNumber(call.writes[k].token)

\* C9: the unknown-type error path is taken only for a tag outside
\* [I32, num_numeric_types); each of the six declared types is written.
C9_DeclaredTypesAreWritten ==
    (ParsedLine /\ call.err = "unknown_type")
        => column_info.field_types[Len(call.writes) + 1]
             \notin I32..(num_numeric_types - 1)

------------------------------------------------------------------------------
(* read_single_tree_ctrees *)

\* what an indeterminate byte can turn out to be: a newline, a marker or
\* any other character
GarbageChars == {"\n", "#", "1"}

\* what the bytes of linebuf after the copied ones can turn out to hold
\* before their first NUL (bounded to one byte)
GarbageTails == {<<>>, <<"1">>}

\* pread(fd, buf, count, off): the number of bytes read
pread_count(count, off) ==
    IF off >= Len(file) THEN 0
    ELSE IF Len(file) - off < count THEN Len(file) - off ELSE count

\* byte at C index p of an array held as the sequence buf; indeterminate
\* outside the array and where nothing was written
ByteChoices(buf, p) ==
    IF p + 1 \in 1..Len(buf) /\ buf[p + 1] # UNINIT THEN {buf[p + 1]}
    ELSE IF wild < MaxWild THEN GarbageChars ELSE {"1"}

\* is the byte at C index p of the array indeterminate
Indeterminate(buf, p) == ~(p + 1 \in 1..Len(buf) /\ buf[p + 1] # UNINIT)

\* The for loop over first_tree_line: the offsets it can end with.  i is the
\* C index, n the number of bytes pread delivered; bytes from n on are
\* indeterminate.  The loop leaves at the first newline or after
\* num_chars_first_tree_line bytes.
RECURSIVE SkipLineOffsets(_, _, _)
SkipLineOffsets(off, i, n) ==
    IF i >= num_chars_first_tree_line THEN {off}
    ELSE UNION { IF b = "\n" THEN {off + 1}
                 ELSE SkipLineOffsets(off + 1, i + 1, n) :
                 b \in IF i < n THEN {file[offset + i + 1]} ELSE GarbageChars }

\* The inner while loop of one row scan: the ways it can end.  cp is
\* curr_pos; `this` points at C index start + cp of read_buffer.
RECURSIVE ScanOutcomes(_)
ScanOutcomes(cp) ==
    IF ~(cp < nbytes_read)
    THEN {[kind |-> "exhausted", curr_pos |-> 0, first |-> FALSE, wild |-> FALSE]}
    ELSE UNION {
           IF b = "\n" THEN {[kind |-> "row", curr_pos |-> cp, first |-> FALSE,
                              wild |-> Indeterminate(read_buffer, start + cp)]}
           ELSE IF b = "#" THEN {[kind |-> "marker", curr_pos |-> 0, first |-> cp = 0,
                                  wild |-> Indeterminate(read_buffer, start + cp)]}
           ELSE ScanOutcomes(cp + 1) : b \in ByteChoices(read_buffer, start + cp) }

\* the file bytes a chunk pread puts at the front of read_buffer
Filled(buf, n, off) ==
    [i \in 1..Len(buf) |-> IF i <= n THEN file[off + i] ELSE buf[i]]

\* entry of read_single_tree_ctrees up to the chunk loop: the ncols check and
\* the skip of the marker line
SkipMarkerLine ==
    /\ pc = "entry"
    /\ op' = "read_single_tree"
    /\ IF column_info.ncols > PARSE_CTREES_MAX_NCOLS
       THEN /\ pc' = "return" /\ rstatus' = EXIT_FAILURE /\ UNCHANGED offset
       ELSE IF pread_count(num_chars_first_tree_line, offset) > 0
            THEN /\ offset' \in SkipLineOffsets(offset, 0,
                                   pread_count(num_chars_first_tree_line, offset))
                 /\ pc' = "read"
                 /\ UNCHANGED rstatus
            ELSE /\ pc' = "return" /\ rstatus' = EXIT_FAILURE /\ UNCHANGED offset
    /\ UNCHANGED <<column_info, N, nallocated, base_ptrs, status, call, file, done,
                   read_buffer, nbytes_read, bytes_processed, start, handed, marker, wild, pass,
                   headVars>>

\* top of the chunk loop: the pread of a chunk
ReadChunk ==
    /\ pc = "read"
    /\ nbytes_read' = pread_count(to_read_bytes, offset)
    /\ IF nbytes_read' = 0
       THEN /\ done' = 1
            /\ pc' = "return"
            /\ rstatus' = EXIT_SUCCESS
            /\ UNCHANGED <<read_buffer, bytes_processed, start>>
       ELSE /\ read_buffer' = Filled(read_buffer, nbytes_read', offset)
            /\ bytes_processed' = 0
            /\ start' = 0
            /\ pc' = "scan"
            /\ UNCHANGED <<done, rstatus>>
    /\ UNCHANGED <<op, column_info, N, nallocated, base_ptrs, status, call, file,
                   offset, handed, marker, wild, pass, headVars>>

\* the pread of a chunk fails (nbytes_read < 0)
ReadError ==
    /\ pc = "read"
    /\ nbytes_read' = -1
    /\ pc' = "return"
    /\ rstatus' = EXIT_FAILURE
    /\ UNCHANGED <<op, column_info, N, nallocated, base_ptrs, status, call, file,
                   offset, done, read_buffer, bytes_processed, start, handed, marker, wild, pass,
                   headVars>>

\* what a copy of more than sizeof(linebuf) bytes into linebuf can do
CopyChoices(c) == IF c > PARSE_CTREES_MAXBUFSIZE THEN {"silent", "crash"} ELSE {"silent"}

\* linebuf after memmove(linebuf, read_buffer, c): the first c bytes of
\* read_buffer, then whatever the array held (tail) up to a NUL
LineBufs(buf, c) ==
    {SubSeq(buf, 1, c) \o tail \o <<NUL>> :
        tail \in IF wild < MaxWild THEN GarbageTails ELSE {<<>>}}

\* did the bytes after the copied ones lengthen the text in linebuf
TailTold(linebuf, c) == Len(CStr(linebuf)) > c

\* One pass of the while(keep_parsing == 1) loop: the scan for the end of
\* the row at start, then (for a row, and for a marker as well, which only
\* breaks out of the scan) the NUL store, the copy into linebuf and the call
\* of parse_line_ctrees.
ScanRow ==
    /\ pc = "scan"
    /\ op' = "read_single_tree"
    /\ \E o \in ScanOutcomes(0) :
         IF o.kind = "exhausted"
         THEN /\ pc' = "endpass"
              /\ UNCHANGED <<N, nallocated, base_ptrs, status, call, done, read_buffer,
                             bytes_processed, start, rstatus, handed, marker, wild>>
         ELSE
         \E buf \in {[read_buffer EXCEPT ![o.curr_pos + 1] = NUL]} :
         \E linebuf \in LineBufs(buf, o.curr_pos), copy \in CopyChoices(o.curr_pos) :
         \E r \in ParseLineOutcomes(linebuf, column_info,
                     [N |-> N, nallocated |-> nallocated, base_ptrs |-> base_ptrs]) :
             /\ read_buffer' = buf
             /\ start' = start + o.curr_pos + 1
             /\ bytes_processed' = bytes_processed + o.curr_pos + 1
             /\ done' = IF o.kind = "marker" THEN 1 ELSE done
             /\ marker' = IF o.kind = "marker"
                          THEN [seen |-> TRUE, at |-> offset + start,
                                rows |-> Len(handed), first |-> o.first /\ ~o.wild]
                          ELSE marker
             /\ wild' = IF o.wild \/ TailTold(linebuf, o.curr_pos) THEN wild + 1 ELSE wild
             /\ IF copy = "crash"
                THEN /\ pc' = "return"
                     /\ rstatus' = CRASH
                     /\ UNCHANGED <<N, nallocated, base_ptrs, status, call, handed>>
                ELSE /\ handed' = Append(handed, CStr(linebuf))
                     /\ N' = r.N
                     /\ nallocated' = r.nallocated
                     /\ base_ptrs' = r.base_ptrs
                     /\ status' = r.status
                     /\ call' = CallRecord(linebuf, r)
                     /\ pc' = IF r.status # EXIT_SUCCESS THEN "return"
                              ELSE IF o.kind = "marker" THEN "endpass"
                              ELSE "scan"
                     /\ rstatus' = IF r.status # EXIT_SUCCESS THEN r.status
                                   ELSE rstatus
    /\ UNCHANGED <<column_info, file, offset, nbytes_read, pass, headVars>>

\* after the row loop: the assertion on bytes_processed, the advance of
\* offset and the test of done
EndPass ==
    /\ pc = "endpass"
    /\ pass' = [ended |-> TRUE, from |-> offset, read |-> nbytes_read]
    /\ IF XAssertFails(bytes_processed <= nbytes_read)
       THEN /\ pc' = "return" /\ rstatus' = EXIT_FAILURE /\ UNCHANGED offset
       ELSE /\ offset' = offset + bytes_processed
            /\ pc' = IF done = 1 THEN "return" ELSE "read"
            /\ rstatus' = IF done = 1 THEN EXIT_SUCCESS ELSE rstatus
    /\ UNCHANGED <<op, column_info, N, nallocated, base_ptrs, status, call, file, done,
                   read_buffer, nbytes_read, bytes_processed, start, handed, marker, wild,
                   headVars>>

------------------------------------------------------------------------------
(* The reader specification: one call of read_single_tree_ctrees at the    *)
(* marker line that opens the file's first tree block.                     *)

FileChars == {"#", "\n", "1", "3"}

\* files whose first byte is the '#' of a marker line
Files == {f \in SeqsUpTo(FileChars, MaxFileLen) : f # <<>> /\ f[1] = "#"}

\* the mapping of the reader specification: file column 0 as int32_t
ReadMapping ==
    [ncols |-> 1, column_number |-> <<0>>, field_types |-> <<I32>>,
     dest_offset_to_element |-> <<0>>, base_ptr_idx |-> <<0>>]

InitRead ==
    /\ op = "init"
    /\ column_info = ReadMapping
    /\ N = 0
    /\ nallocated \in 1..MaxInitCap
    /\ base_ptrs = [g \in 1..num_base_ptrs |-> nallocated]
    /\ status = "none"
    /\ call = NoCall
    /\ file \in Files
    /\ pc = "entry"
    /\ offset = 0
    /\ done = 0
    /\ read_buffer = [i \in 1..(to_read_bytes + 1) |-> UNINIT]
    /\ nbytes_read = 0
    /\ bytes_processed = 0
    /\ start = 0
    /\ rstatus = "none"
    /\ handed = <<>>
    /\ marker = NoMarker
    /\ wild = 0
    /\ pass = NoPass
    /\ HeaderIdle

NextRead == SkipMarkerLine \/ ReadChunk \/ ReadError \/ ScanRow \/ EndPass

SpecRead == InitRead /\ [][NextRead]_vars

------------------------------------------------------------------------------
(* Claims about read_single_tree_ctrees (SpecRead) *)

\* the text of s cut into its newline-terminated rows, up to the first row
\* that starts with '#'; a last piece without a newline is no row
RECURSIVE RowsOf(_)
RowsFrom(s, k) ==
    IF k > Len(s) THEN <<>> ELSE <<Take(s, k - 1)>> \o RowsOf(Drop(s, k))
RowsOf(s) ==
    IF s = <<>> \/ s[1] = "#" THEN <<>> ELSE RowsFrom(s, FirstIn(s, {"\n"}, 1))

\* the rows of the block that opens at the head of the file
BlockRows == RowsOf(Drop(file, FirstIn(file, {"\n"}, 1)))

\* the marker line ends inside the lookahead window
ShortMarkerLine == FirstIn(file, {"\n"}, 1) <= num_chars_first_tree_line

\* C2: when the scan reaches a candidate row whose first character is '#',
\* parse_line_ctrees is called neither for that row nor for anything after
\* it, and the reader ends with offset at that row's first byte.
C2_StopsAtNextMarker ==
    (wild = 0 /\ marker.seen /\ marker.first)
        => /\ Len(handed) = marker.rows
           /\ (pc = "return" /\ rstatus = EXIT_SUCCESS) => offset = marker.at

\* C3: the row texts handed to parse_line_ctrees are the newline-terminated
\* rows between the block's marker line and the next marker line or the end
\* of the file, each once, in file order, with its own characters.
C3_HandsEachRowOnce ==
    (wild = 0 /\ ShortMarkerLine /\ pc = "return" /\ rstatus = EXIT_SUCCESS)
        => handed = BlockRows

\* C10: a pass of the chunk loop that read a positive number of bytes and
\* did not end the loop has strictly advanced the read offset.
C10_PassEndsOrAdvances ==
    (pass.ended /\ pass.read > 0 /\ pc = "read") => offset > pass.from

\* the bytes the lookahead pread delivered at the start offset hold a newline
WindowHasNewline ==
    FirstIn(file, {"\n"}, 1) <= pread_count(num_chars_first_tree_line, 0)

\* the reader has done the skip of the marker line and nothing since
JustSkipped == pc = "read" /\ ~pass.ended /\ handed = <<>>

\* C11: if the lookahead window read at the start offset holds a newline,
\* the skip leaves offset just past the first newline; if it holds none,
\* the call fails and no row is handed to parse_line_ctrees.
C11_SkipMarkerLine ==
    /\ (WindowHasNewline /\ JustSkipped) => offset = FirstIn(file, {"\n"}, 1)
    /\ (~WindowHasNewline /\ pc # "entry")
           => pc = "return" /\ rstatus = EXIT_FAILURE /\ handed = <<>>

------------------------------------------------------------------------------
(* parse_header_ctrees                                                     *)

\* longest column name plus one
PARSE_CTREES_MAX_COLNAME_LEN == 64

\* tolower, on the letters of the model
tolower(c) == CASE c = "A" -> "a" [] c = "B" -> "b" [] OTHER -> c

Lowered(s) == [i \in 1..Len(s) |-> tolower(s[i])]

\* strcmp in the place of strcasecmp
CaseSensitive(a, b) == IF a = b THEN 0 ELSE 1

\* strcasecmp(a, b): 0 when the strings are equal once lowered (only the
\* comparison with 0 is used)
strcasecmp(a, b) == IF Lowered(a) = Lowered(b) THEN 0 ELSE 1

\* atoi(s)
atoi(s) == ToInt32(strtol(s))

\* the first tokenisation: the number of tokens strsep cuts on " ,"
RECURSIVE CountTokens(_, _)
CountTokens(string, delims) ==
    IF string = NULL THEN 0
    ELSE 1 + CountTokens(strsep(string, delims).string, delims)

\* const char delimiters[] = " ,\n#"
delimiters == {" ", ",", "\n", "#"}

\* the characters copied to names[col]: those before the first '('
ColName(token) == Take(token, FirstIn(token, {"("}, 1) - 1)

\* the index check of a token with '(' at i and the next ')' at j
SuffixAt(token, col, i, j) ==
    /\ i <= Len(token)
    /\ j <= Len(token)
    /\ XAssertFails(atoi(SubSeq(token, i + 1, j - 1)) = col)

SuffixFails(token, col, i) == SuffixAt(token, col, i, FirstIn(token, {")"}, i + 1))

\* the second tokenisation: the loop that fills names[], col being the number
\* of names stored so far
RECURSIVE NamesLoop(_, _, _)
NamesStep(r, names, totncols) ==
    IF r.token = <<>> THEN NamesLoop(r.string, names, totncols)
    ELSE IF XAssertFails(Len(r.token) < PARSE_CTREES_MAX_COLNAME_LEN)
    THEN [names |-> names, err |-> "totlen"]
    ELSE IF Len(names) >= totncols
    THEN [names |-> names, err |-> "outside names"]
    ELSE IF SuffixFails(r.token, Len(names), FirstIn(r.token, {"("}, 1))
    THEN [names |-> names, err |-> "ctrees_colnum"]
    ELSE NamesLoop(r.string, Append(names, ColName(r.token)), totncols)

NamesLoop(string, names, totncols) ==
    IF string = NULL THEN [names |-> names, err |-> "none"]
    ELSE NamesStep(strsep(string, delimiters), names, totncols)

\* the inner loop of match_column_name: the first j with an equal name, or -1
RECURSIVE FirstMatch(_, _, _)
FirstMatch(wanted_colname, names, j) ==
    IF j >= Len(names) THEN -1
    ELSE IF strcasecmp(wanted_colname, names[j + 1]) = 0 THEN j
    ELSE FirstMatch(wanted_colname, names, j + 1)

match_column_name(wanted_columns, nwanted, names) ==
    [i \in 1..nwanted |-> FirstMatch(wanted_columns[i], names, 0)]

\* the arrays the sort works on
SortArrays(req, matched_columns) ==
    [field_types |-> req.field_types, matched_columns |-> matched_columns,
     base_ptr_idx |-> req.base_ptr_idx,
     dest_offset_to_element |-> req.dest_offset_to_element,
     column_names |-> req.column_names]

\* SGLIB_ARRAY_ELEMENTS_EXCHANGER(type, a, i, j), indices from 1
Exchanged(a, i, j) == [a EXCEPT ![i] = a[j], ![j] = a[i]]

\* an exchange that leaves field_types where it is
ExchangerLeavingTypes(arr, i, j) ==
    [arr EXCEPT !.matched_columns = Exchanged(@, i, j),
                !.base_ptr_idx = Exchanged(@, i, j),
                !.dest_offset_to_element = Exchanged(@, i, j),
                !.column_names = Exchanged(@, i, j)]

MULTIPLE_ARRAY_EXCHANGER(arr, i, j) ==
    [arr EXCEPT !.field_types = Exchanged(@, i, j),
                !.matched_columns = Exchanged(@, i, j),
                !.base_ptr_idx = Exchanged(@, i, j),
                !.dest_offset_to_element = Exchanged(@, i, j),
                !.column_names = Exchanged(@, i, j)]

\* positions from p on that hold the least key of a[p..n]
LeastFrom(a, p, n) == {m \in p..n : \A k \in p..n : a[m] <= a[k]}

\* SGLIB_ARRAY_QUICK_SORT(int, matched_columns, nfields,
\* SGLIB_NUMERIC_COMPARATOR, MULTIPLE_ARRAY_EXCHANGER): every arrangement an
\* ascending sort by exchanges can end in; equal keys may end in any order
RECURSIVE SGLIB_ARRAY_QUICK_SORT(_, _, _)
SGLIB_ARRAY_QUICK_SORT(arr, p, n) ==
    IF p >= n THEN {arr}
    ELSE UNION { SGLIB_ARRAY_QUICK_SORT(MULTIPLE_ARRAY_EXCHANGER(arr, p, m), p + 1, n) :
                 m \in LeastFrom(arr.matched_columns, p, n) }

\* the column_info a mapping starts as: ncols = 0
EmptyMapping ==
    [ncols |-> 0, column_number |-> <<>>, field_types |-> <<>>,
     dest_offset_to_element |-> <<>>, base_ptr_idx |-> <<>>]

\* the loop that assigns the columns that were found
RECURSIVE AssignLoop(_, _, _, _)
AssignLoop(ci, arr, i, nfields) ==
    IF i > nfields THEN ci
    ELSE IF arr.matched_columns[i] = -1 THEN AssignLoop(ci, arr, i + 1, nfields)
    ELSE AssignLoop(
           [ncols |-> ci.ncols + 1,
            column_number |-> Append(ci.column_number, arr.matched_columns[i]),
            field_types |-> Append(ci.field_types, arr.field_types[i]),
            dest_offset_to_element |->
                Append(ci.dest_offset_to_element, arr.dest_offset_to_element[i]),
            base_ptr_idx |-> Append(ci.base_ptr_idx, arr.base_ptr_idx[i])],
           arr, i + 1, nfields)

\* the caller's arrays after the sort
Permuted(req, arr) ==
    [req EXCEPT !.column_names = arr.column_names,
                !.field_types = arr.field_types,
                !.base_ptr_idx = arr.base_ptr_idx,
                !.dest_offset_to_element = arr.dest_offset_to_element]

Failed(req, ci, status_) ==
    [status |-> status_, request |-> req, column_info |-> ci]

\* match, sort and assign, for the names the header gave
Resolved(req, arr, nfields) ==
    [status |-> EXIT_SUCCESS, request |-> Permuted(req, arr),
     column_info |-> AssignLoop(EmptyMapping, arr, 1, nfields)]

MatchAndSort(req, ci, names) ==
    { Resolved(req, arr, req.nfields) :
        arr \in SGLIB_ARRAY_QUICK_SORT(
                   SortArrays(req, match_column_name(req.column_names, req.nfields, names)),
                   1, req.nfields) }

\* after the names loop: a name written outside names[] is a write outside
\* the allocation; otherwise the columns counted twice must agree
AfterNames(req, ci, r, totncols) ==
    IF r.err = "outside names"
    THEN {Failed(req, ci, CRASH), Failed(req, ci, EXIT_FAILURE)}
    ELSE IF r.err # "none" THEN {Failed(req, ci, EXIT_FAILURE)}
    ELSE IF XAssertFails(Len(r.names) = totncols) THEN {Failed(req, ci, EXIT_FAILURE)}
    ELSE MatchAndSort(req, ci, r.names)

Tokenised(req, ci, linebuf, totncols) ==
    AfterNames(req, ci, NamesLoop(linebuf, <<>>, totncols), totncols)

\* parse_header_ctrees(column_names, field_types, base_ptr_idx,
\* dest_offset_to_element, nfields, filename, column_info), linebuf being
\* the first line of the file (NULL for a file without one)
parse_header_ctrees(req, linebuf, ci) ==
    IF req.nfields > PARSE_CTREES_MAX_NCOLS THEN {Failed(req, ci, EXIT_FAILURE)}
    ELSE IF linebuf = NULL THEN {Failed(req, ci, EXIT_FAILURE)}
    ELSE IF linebuf[1] # "#" THEN {Failed(req, ci, EXIT_FAILURE)}
    ELSE Tokenised(req, ci, linebuf, CountTokens(linebuf, {" ", ","}))

------------------------------------------------------------------------------
(* The header specification: one call of parse_header_ctrees on the first  *)
(* line of a file.                                                         *)

\* most columns of a header line
MaxHdrCols == 3
\* most requested columns
MaxReq == 3

HeaderNames == {<<"B">>, <<"b", "a">>}
RequestNames == {<<"a">>, <<"b">>, <<"b", "a">>}

\* how the header line is written
Styles == {"spaces", "commas", "indexed", "misindexed",
           "no marker", "gap", "doubled", "marker inside"}

Lead(style) ==
    CASE style = "no marker" -> <<>>
      [] style = "gap" -> <<"#", " ">>
      [] OTHER -> <<"#">>

Sep(style) ==
    CASE style = "commas" -> <<",">>
      [] style = "doubled" -> <<" ", " ">>
      [] style = "marker inside" -> <<"#">>
      [] OTHER -> <<" ">>

End(style) == IF style = "commas" THEN <<>> ELSE <<"\n">>

DigitChar(k) == <<"0", "1", "2", "3", "4", "5", "6", "7", "8", "9">>[k + 1]

Item(name, k, style) ==
    CASE style = "indexed" -> name \o <<"(", DigitChar(k), ")">>
      [] style = "misindexed" -> name \o <<"(", DigitChar(k + 1), ")">>
      [] OTHER -> name

RECURSIVE JoinItems(_, _, _)
JoinItems(cols, k, style) ==
    IF k > Len(cols) THEN <<>>
    ELSE (IF k > 1 THEN Sep(style) ELSE <<>>)
             \o Item(cols[k], k - 1, style) \o JoinItems(cols, k + 1, style)

HeaderLines ==
    { Lead(style) \o JoinItems(cols, 1, style) \o End(style) :
        cols \in SeqsUpTo(HeaderNames, MaxHdrCols) \ {<<>>}, style \in Styles }

\* the caller's requests: request i asks for names[i] as type i-1 at byte
\* 4*(i-1) of an element of group (i-1) mod num_base_ptrs
RequestOf(names) ==
    [nfields |-> Len(names),
     column_names |-> names,
     field_types |-> [i \in 1..Len(names) |-> (i - 1) % num_numeric_types],
     base_ptr_idx |-> [i \in 1..Len(names) |-> (i - 1) % num_base_ptrs],
     dest_offset_to_element |-> [i \in 1..Len(names) |-> 4 * (i - 1)]]

Requests == { RequestOf(names) : names \in SeqsUpTo(RequestNames, MaxReq) \ {<<>>} }

InitHeader ==
    /\ op = "init"
    /\ column_info = EmptyMapping
    /\ N = 0
    /\ nallocated = 0
    /\ base_ptrs = [g \in 1..num_base_ptrs |-> 0]
    /\ status = "none"
    /\ call = NoCall
    /\ ReaderIdle
    /\ header \in HeaderLines
    /\ request \in Requests
    /\ request0 = request

ParseHeader ==
    /\ op = "init"
    /\ \E r \in parse_header_ctrees(request, header, column_info) :
           /\ op' = "parse_header"
           /\ status' = r.status
           /\ request' = r.request
           /\ column_info' = r.column_info
    /\ UNCHANGED <<N, nallocated, base_ptrs, call, readVars, header, request0>>

NextHeader == ParseHeader

SpecHeader == InitHeader /\ [][NextHeader]_vars

------------------------------------------------------------------------------
(* Claims about parse_header_ctrees (SpecHeader) *)

\* the request (by its place in the caller's arrays at the call) that a
\* mapping entry k came from: the one with the entry's byte offset
SourceOf(k) ==
    {i \in 1..request0.nfields :
        request0.dest_offset_to_element[i] = column_info.dest_offset_to_element[k]}

\* the file column each request resolved to, -1 for none
ResolvedTo ==
    match_column_name(request0.column_names, request0.nfields,
                      NamesLoop(header, <<>>, CountTokens(header, {" ", ","})).names)

\* C6: after a successful parse_header_ctrees the mapping entries are in
\* non-decreasing order of file column index, and every entry carries the
\* type, the destination selector and the byte offset of the request whose
\* name resolved to the entry's file column.
C6_SortedWithAttributes ==
    (op = "parse_header" /\ status = EXIT_SUCCESS)
        => /\ \A k \in 1..column_info.ncols, l \in 1..column_info.ncols :
                 k <= l => column_info.column_number[k] <= column_info.column_number[l]
           /\ \A k \in 1..column_info.ncols :
                 \E i \in SourceOf(k) :
                     /\ column_info.column_number[k] = ResolvedTo[i]
                     /\ column_info.field_types[k] = request0.field_types[i]
                     /\ column_info.base_ptr_idx[k] = request0.base_ptr_idx[i]

\* a successful call whose sort had to move a later request in front of an
\* earlier one
C6_Witness ==
    /\ op = "parse_header"
    /\ status = EXIT_SUCCESS
    /\ column_info.ncols >= 2
    /\ \E k \in 1..column_info.ncols, l \in 1..column_info.ncols :
           /\ k < l
           /\ column_info.column_number[k] < column_info.column_number[l]
           /\ column_info.dest_offset_to_element[k] > column_info.dest_offset_to_element[l]

\* the header line without its '#' and without the newline that ends it
Body(h) ==
    IF h[Len(h)] = "\n" THEN SubSeq(h, 2, Len(h) - 1) ELSE SubSeq(h, 2, Len(h))

\* a text cut at every space and comma
RECURSIVE Pieces(_)
PiecesFrom(s, k) ==
    IF k > Len(s) THEN <<s>> ELSE <<Take(s, k - 1)>> \o Pieces(Drop(s, k))
Pieces(s) == PiecesFrom(s, FirstIn(s, {" ", ","}, 1))

\* a piece is a name, or a name followed by "(k)" with k its 0-based place
GoodPiece(piece, k) ==
    /\ piece # <<>>
    /\ \A c \in 1..Len(piece) : piece[c] \notin {"#", "\n", ")"} \/ c = Len(piece)
    /\ piece[1] # "("
    /\ \/ \A c \in 1..Len(piece) : piece[c] \notin {"(", ")"}
       \/ /\ Len(piece) >= 3
          /\ piece[Len(piece)] = ")"
          /\ piece[Len(piece) - 2] = "("
          /\ piece[Len(piece) - 1] = DigitChar(k)
          /\ \A c \in 1..(Len(piece) - 3) : piece[c] # "("

\* a header line as the format describes it: '#', then the column names
\* (each with or without its index), one space or comma between two names
WellFormed(h) ==
    /\ Len(h) >= 2
    /\ h[1] = "#"
    /\ Body(h) # <<>>
    /\ \A k \in 1..Len(Pieces(Body(h))) : GoodPiece(Pieces(Body(h))[k], k - 1)

\* the column names of a well-formed header line, in file order
NameOfPiece(piece) == Take(piece, FirstIn(piece, {"("}, 1) - 1)
HeaderColumns(h) == [k \in 1..Len(Pieces(Body(h))) |-> NameOfPiece(Pieces(Body(h))[k])]

\* the same name, letter case aside
Folded(c) == IF c = "A" THEN "a" ELSE IF c = "B" THEN "b" ELSE c
SameName(a, b) ==
    Len(a) = Len(b) /\ \A c \in 1..Len(a) : Folded(a[c]) = Folded(b[c])

\* 0-based places of the header columns with the name
PlacesOf(name, cols) == {j \in 0..(Len(cols) - 1) : SameName(name, cols[j + 1])}

\* the first of them
FirstPlace(P) == CHOOSE j \in P : \A q \in P : j <= q

\* what C7 promises of the mapping
MappingAsPromised(cols) ==
    /\ status = EXIT_SUCCESS
    /\ column_info.ncols
         = Cardinality({i \in 1..request0.nfields :
                           PlacesOf(request0.column_names[i], cols) # {}})
    /\ \A i \in 1..request0.nfields :
          IF PlacesOf(request0.column_names[i], cols) = {}
          THEN \A k \in 1..column_info.ncols : i \notin SourceOf(k)
          ELSE /\ Cardinality({k \in 1..column_info.ncols : i \in SourceOf(k)}) = 1
               /\ \A k \in 1..column_info.ncols :
                     i \in SourceOf(k)
                         => column_info.column_number[k]
                              = FirstPlace(PlacesOf(request0.column_names[i], cols))

RECURSIVE AnyPieces(_)
AnyPiecesFrom(s, k) ==
    (IF k > 1 THEN <<NameOfPiece(Take(s, k - 1))>> ELSE <<>>)
        \o (IF k > Len(s) THEN <<>> ELSE AnyPieces(Drop(s, k)))
AnyPieces(s) == AnyPiecesFrom(s, FirstIn(s, {" ", ",", "\n", "#"}, 1))

=============================================================================
